---- MODULE Spec2Model ----
(***************************************************************************)
(* Batch engine of groq-subtitles: VideoProcessor.process_videos fans the  *)
(* unprocessed videos out to a ThreadPoolExecutor; every worker thread     *)
(* runs _process_single_video (extract, transcribe, save subtitles,        *)
(* unlink, add to the progress set, _save_progress, report).  The progress *)
(* file subtitle_progress.json is modelled as the sequence of JSON tokens  *)
(* it holds, so that truncation by open(.., "w") and writes through two    *)
(* independent file descriptors are visible.                               *)
(***************************************************************************)
EXTENDS Naturals, Integers, Sequences, FiniteSets, TLC

\* ---------------------------------------------------------------- bounds
NumVideos == 3
MaxWorkers == 2
MaxRuns == 2

Videos == 1..NumVideos
Workers == 1..MaxWorkers
\* The value of a slot that holds no video.
NoItem == NumVideos + 1

VARIABLES
    num_workers,      \* config.num_workers
    video_files,      \* what discovery returned for input_path (lines 29-32)
    file,             \* subtitle_progress.json: NoFile or its token sequence
    processed_files,  \* self._processed_files
    loaded,           \* the set _load_progress returned at construction
    mainpc,           \* position of the thread running process_videos
    todo,             \* unprocessed_files not yet submitted (list)
    unprocessed_files, \* the files left by the filter of line 38
    queue,            \* the executor's work queue
    wpc,              \* position of each worker thread
    witem,            \* the video a worker thread is processing
    si_used,          \* the set iterator's size snapshot inside _save_progress
    buf,              \* the text a worker has json.dump-ed into its file object
    item,             \* per video: bookkeeping of its pipeline in this run
    completed,        \* the rich progress task's completed count
    log,              \* records written to the logger
    crashed,          \* the process was killed
    lastSaved,        \* content written by the last _save_progress that returned
    run,              \* 1 for the first invocation, 2 for the re-run
    prevOk,           \* the previous run left every discovered video recorded or succeeded
    vpath,            \* the path of each video: its stem and its suffix
    audio,            \* the audio artifacts on disk, each with the item that wrote it
    config,           \* the resolved Config
    exit_code,        \* the exit status of cli.process, -1 until it has ended
    input_exists,     \* input_path.exists()
    transcriber,      \* the fields of the WhisperTranscriber
    built_by,         \* who constructed the transcriber
    tpc,              \* position inside transcribe_audio / save_subtitles
    afile,            \* the audio file passed to transcribe_audio: size and suffix
    session,          \* an aiohttp.ClientSession has been opened
    request,          \* the form fields of the request that was sent
    response,         \* the status and body the service answered with
    result,           \* what transcribe_audio returned
    terr,             \* what transcribe_audio raised
    subs,             \* the outcome of save_subtitles
    disk,             \* the entries below the scanned directory
    root,             \* input_path
    scanned,          \* video_files as lines 29-32 compute it
    probe,            \* a call of _is_supported_video and its result
    scanpc            \* position of the discovery

\* The state of the batch engine.
engineVars == <<num_workers, video_files, file, processed_files, loaded, mainpc, todo,
                unprocessed_files, queue, wpc, witem, si_used, buf, item, completed, log,
                crashed, lastSaved, run, prevOk, vpath, audio>>

\* The state of the transcription client.
clientVars == <<transcriber, built_by, tpc, afile, session, request, response,
                result, terr, subs>>

\* The state of discovery.
scanVars == <<disk, root, scanned, probe, scanpc>>

\* The state of the command line entry point.
cliVars == <<config, exit_code, input_exists>>

\* The state outside the batch engine's pipeline.
auxVars == <<clientVars, scanVars, cliVars>>

vars == <<engineVars, auxVars>>

\* ------------------------------------------------- progress store (JSON)
NoFile == <<[k |-> "absent", p |-> 0]>>
LBR == [k |-> "[", p |-> 0]
RBR == [k |-> "]", p |-> 0]
COMMA == [k |-> ",", p |-> 0]

\* str(p) for a Path p, as one JSON string token.
Str(p) == [k |-> "str", p |-> p]

\* Path(s) for a JSON string token s.
PathOf(s) == s.p

RECURSIVE JoinList(_)
JoinList(l) ==
    IF Len(l) = 0 THEN <<>>
    ELSE IF Len(l) = 1 THEN <<Str(l[1])>>
    ELSE <<Str(l[1]), COMMA>> \o JoinList(Tail(l))

\* json.dump of a list of path strings.
JsonDump(l) == <<LBR>> \o JoinList(l) \o <<RBR>>

\* A list of the elements of a set.  Python leaves the order of a directory
\* scan and of a set's iteration open; the ascending one is taken, and
\* nothing below reads a position of such a list.
RECURSIVE AscList(_)
AscList(S) ==
    IF S = {} THEN <<>>
    ELSE LET m == CHOOSE x \in S : \A y \in S : x <= y
         IN <<m>> \o AscList(S \ {m})

\* json.load accepts exactly "[" (string ("," string)*)? "]".
JsonValid(f) ==
    /\ f # NoFile
    /\ Len(f) >= 2
    /\ f[1] = LBR
    /\ f[Len(f)] = RBR
    /\ Len(f) > 2 => Len(f) % 2 = 1
    /\ \A n \in 2..(Len(f) - 1) :
          IF n % 2 = 0 THEN f[n].k = "str" ELSE f[n] = COMMA

JsonLoad(f) == {PathOf(f[n]) : n \in {m \in 2..(Len(f) - 1) : m % 2 = 0}}

\* A loader that ignores the file.
LoadNothing(f) == {}

\* _load_progress: the empty set when the file does not exist.
LoadProgress(f) == IF f = NoFile THEN {} ELSE JsonLoad(f)

\* _load_progress raises (json.JSONDecodeError) on a file that is not JSON.
LoadRaises(f) == f # NoFile /\ ~JsonValid(f)

\* open(name, "w"): creates or truncates.
Truncate(f) == <<>>

\* A buffered write of data at offset 0 through a descriptor of its own:
\* bytes of the file beyond the written text stay.
WriteAt0(f, data) ==
    IF Len(f) > Len(data) THEN data \o SubSeq(f, Len(data) + 1, Len(f)) ELSE data

\* ------------------------------------------------------------------ paths
\* SUPPORTED_FORMATS, in a fixed order
VideoSuffixes == <<".mp4", ".mkv", ".avi", ".mov">>

\* Path.with_suffix: the same directory and stem with another suffix.
WithSuffix(path, suffix) == [stem |-> path.stem, suffix |-> suffix]

\* audio_path = video_path.with_suffix(".m4a")
AudioPath(i) == WithSuffix(vpath[i], ".m4a")

AudioExists(path) == \E a \in audio : a.path = path

\* Videos of one directory with pairwise different stems.
DistinctStems == [i \in Videos |-> [stem |-> i, suffix |-> VideoSuffixes[1]]]

\* Videos of one directory, some sharing a stem and then differing in the
\* suffix.  Stems are numbered in the order of their first use.
StemMaps ==
    {f \in [Videos -> Videos] :
        \A i \in Videos : f[i] = 1 \/ \E j \in Videos : j < i /\ f[j] >= f[i] - 1}

PathsOf(f) ==
    [i \in Videos |->
        [stem |-> f[i],
         suffix |-> VideoSuffixes[Cardinality({j \in Videos : j <= i /\ f[j] = f[i]})]]]

\* ------------------------------------------------------------ bookkeeping
FreshItem ==
    [started |-> 0, finished |-> FALSE, outcome |-> "none", failedAt |-> "none",
     inserted |-> FALSE, saveCalled |-> FALSE, persisted |-> FALSE,
     advances |-> 0, raised |-> FALSE]

Running == ~crashed /\ mainpc \in {"discover", "filter", "submit", "gather"}

\* config.num_workers = max(1, workers)
ClampWorkers(workers) == IF workers > 1 THEN workers ELSE 1

\* A pool that ignores the configured size.
UnboundedPool == Workers

\* ThreadPoolExecutor(max_workers=self.config.num_workers)
PoolWorkers == 1..num_workers

\* A filter that lets every discovered file through.
NoFilter(files, done) == files

\* unprocessed_files = [f for f in video_files if f not in self._processed_files]
Unprocessed(files, done) == files \ done

\* An update that does not advance.
NoAdvance(c) == c

\* progress.update(task_id, advance=1)
ProgressUpdate(c) == c + 1

\* The class of the exception a failing step raises.
ExcOf(step) ==
    CASE step = "extract" -> "Exception"
      [] step = "transcribe" -> "ValueError"
      [] step = "subtitles" -> "KeyError"
      [] step = "unlink" -> "FileNotFoundError"
      [] OTHER -> "RuntimeError"

\* A clause that names too narrow a class: except ValueError as e:
CaughtValueErrorOnly(kind) == kind \in {"ValueError"}

\* except Exception as e:
Caught(kind) ==
    kind \in {"Exception", "ValueError", "KeyError", "FileNotFoundError", "RuntimeError"}

\* A try block that reports right after the cleanup, without recording.
FollowingWithoutRecord(pc) ==
    CASE pc = "extract" -> "transcribe"
      [] pc = "transcribe" -> "subtitles"
      [] pc = "subtitles" -> "unlink"
      [] OTHER -> "report"

\* A try block that records the item before it removes the audio file.
FollowingInsertFirst(pc) ==
    CASE pc = "extract" -> "transcribe"
      [] pc = "transcribe" -> "subtitles"
      [] pc = "subtitles" -> "add"
      [] pc = "add" -> "unlink"
      [] pc = "unlink" -> "open"
      [] pc = "open" -> "iter"
      [] pc = "iter" -> "dump"
      [] pc = "dump" -> "close"
      [] OTHER -> "report"

\* The statement order of the try block of _process_single_video.
Following(pc) ==
    CASE pc = "extract" -> "transcribe"
      [] pc = "transcribe" -> "subtitles"
      [] pc = "subtitles" -> "unlink"
      [] pc = "unlink" -> "add"
      [] pc = "add" -> "open"
      [] pc = "open" -> "iter"
      [] pc = "iter" -> "dump"
      [] pc = "dump" -> "close"
      [] OTHER -> "report"

\* Fire and forget: nothing is awaited.
NoJoin == TRUE

\* loop.run_until_complete(asyncio.gather(*futures)) and the executor's exit
\* return once every submitted call has finished.
AllFuturesDone == \A i \in unprocessed_files : item[i].finished

\* -------------------------------------------- configuration and client
\* Python's None.
NONE == "None"

\* config.py WhisperModel
DISTIL_ENGLISH == "distil-whisper-large-v3-en"
WhisperModels == {"whisper-large-v3", "whisper-large-v3-turbo", DISTIL_ENGLISH}

\* config.py ResponseFormat
ResponseFormats == {"json", "verbose_json", "text"}

\* bool(v) of an optional string
Truthy(v) == v # NONE /\ v # ""

\* str.lower() on the strings the model draws
Lower(s) ==
    CASE s = ".M4A" -> ".m4a"
      [] s = ".Wav" -> ".wav"
      [] s = ".MKV" -> ".mkv"
      [] s = ".Mp4" -> ".mp4"
      [] s = "SRT" -> "srt"
      [] s = "Vtt" -> "vtt"
      [] OTHER -> s

\* The Config dataclass; num_workers is the variable of that name.
Config(key, model, language, output_format, response_format, temperature, prompt, recursive) ==
    [groq_api_key |-> key, model |-> model, language |-> language,
     output_format |-> output_format, response_format |-> response_format,
     temperature |-> temperature, prompt |-> prompt, recursive |-> recursive]

\* What cli.process resolves with GROQ_API_KEY set in the environment and no option given.
DefaultConfig ==
    Config("gsk", "whisper-large-v3-turbo", "en", "srt", "verbose_json", NONE, NONE, FALSE)

\* WhisperTranscriber.__init__
WhisperTranscriber(api_key, model, language, response_format, temperature, prompt) ==
    [api_key |-> api_key, model |-> model, language |-> language,
     response_format |-> response_format, temperature |-> temperature, prompt |-> prompt]

\* No transcriber has been constructed.
NoTranscriber == WhisperTranscriber(NONE, NONE, NONE, NONE, NONE, NONE)

\* VideoProcessor.__init__: WhisperTranscriber(config.groq_api_key, config.language).
\* The second positional parameter of the constructor is model; language,
\* response_format, temperature and prompt take their defaults.
ProcessorTranscriber(cfg) ==
    WhisperTranscriber(cfg.groq_api_key, cfg.language, NONE, "verbose_json", NONE, NONE)

MAX_FILE_SIZE == 25 * 1024 * 1024

SUPPORTED_AUDIO_FORMATS == {".mp3", ".mp4", ".mpeg", ".mpga", ".m4a", ".wav", ".webm"}

\* A size check that also rejects a file of exactly the maximum size.
SizeCheckInclusive(size) == size >= MAX_FILE_SIZE

\* if file_size > self.MAX_FILE_SIZE
TooLarge(size) == size > MAX_FILE_SIZE

\* if audio_path.suffix.lower() not in self.SUPPORTED_AUDIO_FORMATS
UnsupportedAudio(suffix) == Lower(suffix) \notin SUPPORTED_AUDIO_FORMATS

\* The fields transcribe_audio adds to the form, lines 71-87.
FormFields(t) ==
    {<<"file", "audio">>, <<"model", t.model>>, <<"response_format", t.response_format>>}
    \cup (IF Truthy(t.language) /\ t.model # DISTIL_ENGLISH
          THEN {<<"language", t.language>>} ELSE {})
    \cup (IF t.temperature # NONE THEN {<<"temperature", t.temperature>>} ELSE {})
    \cup (IF Truthy(t.prompt) THEN {<<"prompt", t.prompt>>} ELSE {})

\* aiohttp cannot serialize a form field whose value is None.
Unserializable(fields) == \E f \in fields : f[2] = NONE

\* if response.status != 200
IsError(status) == status # 200

\* Nothing was raised.
NoError == [kind |-> "none", status |-> 0, body |-> NONE]

\* Nothing was answered.
NoResponse == [status |-> 0, kind |-> NONE, text |-> NONE, segments |-> <<>>]

\* Nothing was returned.
NoResult == [keys |-> {}, text |-> NONE, segments |-> <<>>]

\* Nothing was saved.
NoSubs == [status |-> NONE, format |-> NONE, doc |-> <<>>]

\* return {"text": await response.text()}
TextResult(resp) == [keys |-> {"text"}, text |-> resp.text, segments |-> <<>>]

\* return await response.json()
JsonResult(resp) == [keys |-> {"text", "segments"}, text |-> resp.text, segments |-> resp.segments]

\* lines 98-100
ResultOf(t, resp) == IF t.response_format = "text" THEN TextResult(resp) ELSE JsonResult(resp)

\* save_subtitles and _save_srt / _save_vtt / _save_txt: an unknown format is
\* a ValueError; each writer reads transcription["segments"].
SaveOutcome(res, format) ==
    IF format \notin {"srt", "vtt", "txt"} THEN "ValueError"
    ELSE IF "segments" \notin res.keys THEN "KeyError"
    ELSE "written"

\* _format_timestamp, with the time held in milliseconds: hours, minutes,
\* seconds and milliseconds, separated by "." for vtt and by "," otherwise.
FormatTimestamp(t, vtt) ==
    [hours |-> t \div 3600000,
     minutes |-> (t % 3600000) \div 60000,
     secs |-> (t % 60000) \div 1000,
     msecs |-> t % 1000,
     sep |-> IF vtt THEN "." ELSE ","]

\* No timestamp on a line.
NoStamp == [hours |-> 0, minutes |-> 0, secs |-> 0, msecs |-> 0, sep |-> NONE]

\* The lines a subtitle document is made of.
IndexLine(i) == [kind |-> "index", n |-> i, from |-> NoStamp, to |-> NoStamp, text |-> NONE]
TimingLine(from, to) == [kind |-> "timing", n |-> 0, from |-> from, to |-> to, text |-> NONE]
TextLine(text) == [kind |-> "text", n |-> 0, from |-> NoStamp, to |-> NoStamp, text |-> text]
BlankLine == [kind |-> "blank", n |-> 0, from |-> NoStamp, to |-> NoStamp, text |-> NONE]
HeaderLine == [kind |-> "WEBVTT", n |-> 0, from |-> NoStamp, to |-> NoStamp, text |-> NONE]

\* A block numbered from the position in the list less one.
SrtBlockZeroBased(i, segment) ==
    <<IndexLine(i - 1),
      TimingLine(FormatTimestamp(segment.start, FALSE), FormatTimestamp(segment.end, FALSE)),
      TextLine(segment.text), BlankLine>>

\* line 119: f.write(f"{i}\n{start} --> {end}\n{segment['text']}\n\n")
SrtBlock(i, segment) ==
    <<IndexLine(i),
      TimingLine(FormatTimestamp(segment.start, FALSE), FormatTimestamp(segment.end, FALSE)),
      TextLine(segment.text), BlankLine>>

\* _save_srt: for i, segment in enumerate(transcription["segments"], 1), the
\* blocks from the i-th segment on
RECURSIVE SrtFrom(_, _)
SrtFrom(i, segments) ==
    IF i > Len(segments) THEN <<>>
    ELSE SrtBlock(i, segments[i]) \o SrtFrom(i + 1, segments)

\* _save_srt
SaveSrt(segments) == SrtFrom(1, segments)

\* _save_vtt: the header, then one block per segment, lines 123-127
RECURSIVE VttBlocks(_)
VttBlocks(segments) ==
    IF segments = <<>> THEN <<>>
    ELSE <<TimingLine(FormatTimestamp(Head(segments).start, TRUE),
                      FormatTimestamp(Head(segments).end, TRUE)),
           TextLine(Head(segments).text), BlankLine>> \o VttBlocks(Tail(segments))

SaveVtt(segments) == <<HeaderLine, BlankLine>> \o VttBlocks(segments)

\* _save_txt: one line per segment, lines 131-132
RECURSIVE SaveTxt(_)
SaveTxt(segments) ==
    IF segments = <<>> THEN <<>>
    ELSE <<TextLine(Head(segments).text)>> \o SaveTxt(Tail(segments))

\* What save_subtitles leaves in the output file.
SaveDocument(res, format) ==
    IF SaveOutcome(res, format) # "written" THEN <<>>
    ELSE CASE format = "srt" -> SaveSrt(res.segments)
           [] format = "vtt" -> SaveVtt(res.segments)
           [] OTHER -> SaveTxt(res.segments)

\* The audio files the client is called with.
AudioSizes == {0, MAX_FILE_SIZE - 1, MAX_FILE_SIZE, MAX_FILE_SIZE + 1}
AudioSuffixes == {".m4a", ".M4A", ".Wav", ".ogg", ""}

\* The answers of the transcription service.
Statuses == {200, 201, 204, 400, 429, 500}
\* A segment of the transcription, its times in milliseconds.
Segment(start, end, text) == [start |-> start, end |-> end, text |-> text]

\* The segment lists the service answers with: none, one, two in time order,
\* and three that are not in time order and run past a minute and an hour.
SegmentLists ==
    {<<>>,
     <<Segment(0, 1500, "a")>>,
     <<Segment(0, 1500, "a"), Segment(1500, 2250, "b")>>,
     <<Segment(3661500, 3725250, "c"), Segment(0, 1500, "a"), Segment(61250, 119750, "b")>>}

\* The body the service sends for the response_format the request asked for.
Bodies(fields) ==
    IF <<"response_format", "text">> \in fields
    THEN {[kind |-> "text", text |-> "a b", segments |-> <<>>]}
    ELSE {[kind |-> "json", text |-> "a b", segments |-> s] : s \in SegmentLists}

\* The client before any call.
ClientParked ==
    /\ transcriber = NoTranscriber
    /\ built_by = NONE
    /\ tpc = "parked"
    /\ afile = [size |-> 0, suffix |-> NONE]
    /\ session = FALSE
    /\ request = {}
    /\ response = NoResponse
    /\ result = NoResult
    /\ terr = NoError
    /\ subs = NoSubs

\* A path: where it lies below the scanned directory (depth 1 is a direct
\* child), what it is on disk, and its suffix.
PathEntry(id, depth, kind, suffix) == [id |-> id, depth |-> depth, kind |-> kind, suffix |-> suffix]

\* No path.
NoPath == PathEntry(0, 0, "none", "")

\* input_path when it is a directory.
RootDir == PathEntry(0, 0, "dir", "")

\* Discovery as the batch engine's Discover step abstracts it.
ScanParked ==
    /\ disk = {}
    /\ root = RootDir
    /\ scanned = <<>>
    /\ probe = [path |-> NoPath, result |-> FALSE]
    /\ scanpc = "parked"

\* process_videos called on a VideoProcessor built from a valid configuration.
CliParked ==
    /\ config = DefaultConfig
    /\ exit_code = -1
    /\ input_exists = TRUE

AuxParked == ClientParked /\ ScanParked /\ CliParked

\* ------------------------------------------------------------------ Init
Init ==
    /\ num_workers \in {ClampWorkers(n) : n \in 0..MaxWorkers}
    /\ video_files \in SUBSET Videos
    /\ file \in {NoFile} \cup {JsonDump(AscList(S)) : S \in SUBSET Videos}
    /\ processed_files = LoadProgress(file)
    /\ loaded = LoadProgress(file)
    /\ mainpc = "discover"
    /\ todo = <<>>
    /\ unprocessed_files = {}
    /\ queue = <<>>
    /\ wpc = [w \in Workers |-> "idle"]
    /\ witem = [w \in Workers |-> NoItem]
    /\ si_used = [w \in Workers |-> 0]
    /\ buf = [w \in Workers |-> <<>>]
    /\ item = [i \in Videos |-> FreshItem]
    /\ completed = 0
    /\ log = {}
    /\ crashed = FALSE
    /\ lastSaved = file
    /\ run = 1
    /\ prevOk = FALSE
    /\ vpath = DistinctStems
    /\ audio = {}
    /\ AuxParked

\* ------------------------------------------------------- process_videos
\* lines 29-36
Discover ==
    /\ Running /\ mainpc = "discover"
    /\ IF video_files = {}
       THEN /\ log' = log \cup {[level |-> "warning", msg |-> "No supported video files found", path |-> NoItem]}
            /\ mainpc' = "returned"
       ELSE /\ log' = log
            /\ mainpc' = "filter"
    /\ UNCHANGED <<num_workers, video_files, file, processed_files, loaded, todo, unprocessed_files,
                   queue, wpc, witem, si_used, buf, item, completed, crashed,
                   lastSaved, run, prevOk>>
    /\ UNCHANGED <<vpath, audio>>
    /\ UNCHANGED auxVars

\* lines 38-41
Filter ==
    /\ Running /\ mainpc = "filter"
    /\ LET u == Unprocessed(video_files, processed_files)
       IN IF u = {}
          THEN /\ log' = log \cup {[level |-> "info", msg |-> "All files have been processed", path |-> NoItem]}
               /\ mainpc' = "returned"
               /\ UNCHANGED <<todo, unprocessed_files>>
          ELSE /\ log' = log
               /\ mainpc' = "submit"
               /\ todo' = AscList(u)
               /\ unprocessed_files' = u
    /\ UNCHANGED <<num_workers, video_files, file, processed_files, loaded, queue, wpc,
                   witem, si_used, buf, item, completed, crashed, lastSaved, run, prevOk>>
    /\ UNCHANGED <<vpath, audio>>
    /\ UNCHANGED auxVars

\* lines 57-61: one loop.run_in_executor per unprocessed file
Submit ==
    /\ Running /\ mainpc = "submit"
    /\ todo # <<>>
    /\ queue' = Append(queue, Head(todo))
    /\ todo' = Tail(todo)
    /\ mainpc' = IF Tail(todo) = <<>> THEN "gather" ELSE "submit"
    /\ UNCHANGED <<num_workers, video_files, file, processed_files, loaded, unprocessed_files, wpc,
                   witem, si_used, buf, item, completed, log, crashed, lastSaved,
                   run, prevOk>>
    /\ UNCHANGED <<vpath, audio>>
    /\ UNCHANGED auxVars

\* line 63 and the exit of the with blocks
Gather ==
    /\ Running /\ mainpc = "gather"
    /\ AllFuturesDone
    /\ mainpc' = IF \E i \in unprocessed_files : item[i].raised THEN "raised" ELSE "returned"
    /\ UNCHANGED <<num_workers, video_files, file, processed_files, loaded, todo, unprocessed_files,
                   queue, wpc, witem, si_used, buf, item, completed, log, crashed,
                   lastSaved, run, prevOk>>
    /\ UNCHANGED <<vpath, audio>>
    /\ UNCHANGED auxVars

\* -------------------------------------------------- _process_single_video
\* A pool thread takes the next submitted call from the work queue.  The
\* threads are interchangeable: of the idle ones the lowest takes it.
Take(w) ==
    /\ Running /\ w \in PoolWorkers
    /\ wpc[w] = "idle"
    /\ \A v \in PoolWorkers : v < w => wpc[v] # "idle"
    /\ queue # <<>>
    /\ witem' = [witem EXCEPT ![w] = Head(queue)]
    /\ queue' = Tail(queue)
    /\ wpc' = [wpc EXCEPT ![w] = "extract"]
    /\ item' = [item EXCEPT ![Head(queue)].started = @ + 1]
    /\ UNCHANGED <<num_workers, video_files, file, processed_files, loaded, mainpc, todo,
                   unprocessed_files, si_used, buf, completed, log, crashed, lastSaved, run, prevOk>>
    /\ UNCHANGED <<vpath, audio>>
    /\ UNCHANGED auxVars

\* The effect of a step on the audio artifacts: _extract_audio writes the
\* file at audio_path (line 71), audio_path.unlink() removes it (line 87).
AudioAfter(step, i) ==
    CASE step = "extract" -> {a \in audio : a.path # AudioPath(i)} \cup {[path |-> AudioPath(i), by |-> i]}
      [] step = "unlink" -> {a \in audio : a.path # AudioPath(i)}
      [] OTHER -> audio

\* A step that cannot succeed: audio_path.stat() in transcribe_audio and
\* audio_path.unlink() raise FileNotFoundError when the file is not there.
MustFail(step, i) == step \in {"transcribe", "unlink"} /\ ~AudioExists(AudioPath(i))

\* One of the four steps that call out of the engine: it returns or it raises.
ExternalStep(w, step) ==
    /\ Running
    /\ wpc[w] = step
    /\ \E ok \in BOOLEAN :
          IF ok /\ ~MustFail(step, witem[w])
          THEN /\ wpc' = [wpc EXCEPT ![w] = Following(step)]
               /\ item' = item
               /\ audio' = AudioAfter(step, witem[w])
          ELSE /\ wpc' = [wpc EXCEPT ![w] = "except"]
               /\ item' = [item EXCEPT ![witem[w]].failedAt = step]
               /\ audio' = audio
    /\ UNCHANGED <<num_workers, video_files, file, processed_files, loaded, mainpc, todo,
                   unprocessed_files, queue, witem, si_used, buf, completed, log, crashed,
                   lastSaved, run, prevOk>>
    /\ UNCHANGED vpath
    /\ UNCHANGED auxVars

\* lines 70-71
Extract(w) == ExternalStep(w, "extract")

\* lines 74-78
Transcribe(w) == ExternalStep(w, "transcribe")

\* lines 81-84
SaveSubtitles(w) == ExternalStep(w, "subtitles")

\* line 87
Unlink(w) == ExternalStep(w, "unlink")

\* line 89
Add(w) ==
    /\ Running
    /\ wpc[w] = "add"
    /\ processed_files' = processed_files \cup {witem[w]}
    /\ item' = [item EXCEPT ![witem[w]].inserted = TRUE]
    /\ wpc' = [wpc EXCEPT ![w] = Following("add")]
    /\ UNCHANGED <<num_workers, video_files, file, loaded, mainpc, todo, unprocessed_files, queue,
                   witem, si_used, buf, completed, log, crashed, lastSaved, run, prevOk>>
    /\ UNCHANGED <<vpath, audio>>
    /\ UNCHANGED auxVars

\* line 146: open("subtitle_progress.json", "w")
Open(w) ==
    /\ Running
    /\ wpc[w] = "open"
    /\ file' = Truncate(file)
    /\ item' = [item EXCEPT ![witem[w]].saveCalled = TRUE]
    /\ wpc' = [wpc EXCEPT ![w] = Following("open")]
    /\ UNCHANGED <<num_workers, video_files, processed_files, loaded, mainpc, todo, unprocessed_files,
                   queue, witem, si_used, buf, completed, log, crashed, lastSaved,
                   run, prevOk>>
    /\ UNCHANGED <<vpath, audio>>
    /\ UNCHANGED auxVars

\* line 147: the comprehension starts iterating self._processed_files
Iter(w) ==
    /\ Running
    /\ wpc[w] = "iter"
    /\ si_used' = [si_used EXCEPT ![w] = Cardinality(processed_files)]
    /\ wpc' = [wpc EXCEPT ![w] = Following("iter")]
    /\ UNCHANGED <<num_workers, video_files, file, processed_files, loaded, mainpc, todo,
                   unprocessed_files, queue, witem, buf, item, completed, log, crashed,
                   lastSaved, run, prevOk>>
    /\ UNCHANGED <<vpath, audio>>
    /\ UNCHANGED auxVars

\* line 147: the iteration ends, with RuntimeError ("Set changed size during
\* iteration") when another thread added meanwhile; else json.dump fills the
\* file object's buffer.
Dump(w) ==
    /\ Running
    /\ wpc[w] = "dump"
    /\ IF Cardinality(processed_files) # si_used[w]
       THEN /\ wpc' = [wpc EXCEPT ![w] = "except"]
            /\ item' = [item EXCEPT ![witem[w]].failedAt = "save"]
            /\ buf' = buf
       ELSE /\ buf' = [buf EXCEPT ![w] = JsonDump(AscList(processed_files))]
            /\ wpc' = [wpc EXCEPT ![w] = Following("dump")]
            /\ item' = item
    /\ UNCHANGED <<num_workers, video_files, file, processed_files, loaded, mainpc, todo,
                   unprocessed_files, queue, witem, si_used, completed, log, crashed,
                   lastSaved, run, prevOk>>
    /\ UNCHANGED <<vpath, audio>>
    /\ UNCHANGED auxVars

\* line 146: leaving the with block flushes the buffer and closes the file
Close(w) ==
    /\ Running
    /\ wpc[w] = "close"
    /\ file' = WriteAt0(file, buf[w])
    /\ lastSaved' = buf[w]
    /\ buf' = [buf EXCEPT ![w] = <<>>]
    /\ item' = [item EXCEPT ![witem[w]].persisted = TRUE]
    /\ wpc' = [wpc EXCEPT ![w] = Following("close")]
    /\ UNCHANGED <<num_workers, video_files, processed_files, loaded, mainpc, todo, unprocessed_files,
                   queue, witem, si_used, completed, log, crashed, run, prevOk>>
    /\ UNCHANGED <<vpath, audio>>
    /\ UNCHANGED auxVars

\* lines 92-93
Report(w) ==
    /\ Running
    /\ wpc[w] = "report"
    /\ log' = log \cup {[level |-> "info", msg |-> "Successfully processed", path |-> witem[w]]}
    /\ completed' = ProgressUpdate(completed)
    /\ item' = [item EXCEPT ![witem[w]].outcome = "success",
                            ![witem[w]].advances = ProgressUpdate(@),
                            ![witem[w]].finished = TRUE]
    /\ wpc' = [wpc EXCEPT ![w] = "idle"]
    /\ witem' = [witem EXCEPT ![w] = NoItem]
    /\ si_used' = [si_used EXCEPT ![w] = 0]
    /\ UNCHANGED <<num_workers, video_files, file, processed_files, loaded, mainpc, todo,
                   unprocessed_files, queue, buf, crashed, lastSaved, run, prevOk>>
    /\ UNCHANGED <<vpath, audio>>
    /\ UNCHANGED auxVars

\* lines 95-97; an exception the clause does not catch ends the call and is
\* kept in its future
Except(w) ==
    /\ Running
    /\ wpc[w] = "except"
    /\ IF Caught(ExcOf(item[witem[w]].failedAt))
       THEN /\ log' = log \cup {[level |-> "error", msg |-> "Failed to process", path |-> witem[w]]}
            /\ completed' = ProgressUpdate(completed)
            /\ item' = [item EXCEPT ![witem[w]].outcome = "failed",
                                    ![witem[w]].advances = ProgressUpdate(@),
                                    ![witem[w]].finished = TRUE]
       ELSE /\ log' = log
            /\ completed' = completed
            /\ item' = [item EXCEPT ![witem[w]].outcome = "failed",
                                    ![witem[w]].raised = TRUE,
                                    ![witem[w]].finished = TRUE]
    /\ wpc' = [wpc EXCEPT ![w] = "idle"]
    /\ witem' = [witem EXCEPT ![w] = NoItem]
    /\ si_used' = [si_used EXCEPT ![w] = 0]
    /\ UNCHANGED <<num_workers, video_files, file, processed_files, loaded, mainpc, todo,
                   unprocessed_files, queue, buf, crashed, lastSaved, run, prevOk>>
    /\ UNCHANGED <<vpath, audio>>
    /\ UNCHANGED auxVars

\* ------------------------------------------------------------ environment
\* The process is killed at an arbitrary point of a run.
Crash ==
    /\ Running
    /\ crashed' = TRUE
    /\ UNCHANGED <<num_workers, video_files, file, processed_files, loaded, mainpc, todo,
                   unprocessed_files, queue, wpc, witem, si_used, buf, item, completed, log,
                   lastSaved, run, prevOk>>
    /\ UNCHANGED <<vpath, audio>>
    /\ UNCHANGED auxVars

\* The tool is invoked again on the same input: cli.process builds a new
\* VideoProcessor, whose constructor loads the progress file; an exception
\* there is turned into exit code 1.
Rerun ==
    /\ ~crashed /\ mainpc = "returned"
    /\ run < MaxRuns
    /\ run' = run + 1
    /\ prevOk' = (video_files # {} /\ \A i \in video_files : i \in loaded \/ item[i].outcome = "success")
    /\ IF LoadRaises(file)
       THEN /\ mainpc' = "exit1"
            /\ processed_files' = {}
            /\ loaded' = {}
       ELSE /\ mainpc' = "discover"
            /\ processed_files' = LoadProgress(file)
            /\ loaded' = LoadProgress(file)
    /\ todo' = <<>>
    /\ unprocessed_files' = {}
    /\ queue' = <<>>
    /\ item' = [i \in Videos |-> FreshItem]
    /\ completed' = 0
    /\ log' = {}
    /\ lastSaved' = file
    /\ UNCHANGED <<num_workers, video_files, file, wpc, witem, si_used, buf, crashed>>
    /\ UNCHANGED <<vpath, audio>>
    /\ UNCHANGED auxVars
    /\ UNCHANGED <<vpath, audio>>
    /\ UNCHANGED auxVars

Next ==
    \/ Discover
    \/ Filter
    \/ Submit
    \/ Gather
    \/ \E w \in Workers : Take(w)
    \/ \E w \in Workers : Extract(w)
    \/ \E w \in Workers : Transcribe(w)
    \/ \E w \in Workers : SaveSubtitles(w)
    \/ \E w \in Workers : Unlink(w)
    \/ \E w \in Workers : Add(w)
    \/ \E w \in Workers : Open(w)
    \/ \E w \in Workers : Iter(w)
    \/ \E w \in Workers : Dump(w)
    \/ \E w \in Workers : Close(w)
    \/ \E w \in Workers : Report(w)
    \/ \E w \in Workers : Except(w)

Spec == Init /\ [][Next]_vars

\* A batch over a directory whose videos may share stems.
InitAudio ==
    /\ num_workers \in {ClampWorkers(n) : n \in 0..MaxWorkers}
    /\ video_files = Videos
    /\ file = NoFile
    /\ processed_files = LoadProgress(file)
    /\ loaded = LoadProgress(file)
    /\ mainpc = "discover"
    /\ todo = <<>>
    /\ unprocessed_files = {}
    /\ queue = <<>>
    /\ wpc = [w \in Workers |-> "idle"]
    /\ witem = [w \in Workers |-> NoItem]
    /\ si_used = [w \in Workers |-> 0]
    /\ buf = [w \in Workers |-> <<>>]
    /\ item = [i \in Videos |-> FreshItem]
    /\ completed = 0
    /\ log = {}
    /\ crashed = FALSE
    /\ lastSaved = file
    /\ run = 1
    /\ prevOk = FALSE
    /\ vpath \in {PathsOf(f) : f \in StemMaps}
    /\ audio = {}
    /\ AuxParked

SpecAudio == InitAudio /\ [][Next]_vars

\* The life of the progress file over kills and re-runs.
NextLife ==
    \/ Next
    \/ Crash
    \/ Rerun

SpecLife == Init /\ [][NextLife]_vars

\* --------------------------------------------------------- cli.process
\* A validation that only looks for the credential.
MissingKeyOnly(cfg, exists) == ~Truthy(cfg.groq_api_key)

\* cli.py lines 75-84: the three checks that raise ValueError
ConfigError(cfg, exists) ==
    \/ ~Truthy(cfg.groq_api_key)
    \/ ~exists
    \/ cfg.output_format \notin {"srt", "vtt", "txt"}

\* cli.py lines 64-72 applied to Config.from_env(): the key option wins over
\* the environment's key, and the format option is lowered.
Resolve(key_option, env_key, output_format) ==
    Config(IF Truthy(key_option) THEN key_option ELSE env_key, DefaultConfig.model,
           DefaultConfig.language, Lower(output_format), DefaultConfig.response_format,
           DefaultConfig.temperature, DefaultConfig.prompt, DefaultConfig.recursive)

\* The progress files an invocation may find: none, a valid one, a damaged one.
InitCli ==
    /\ num_workers \in {ClampWorkers(n) : n \in 0..MaxWorkers}
    /\ video_files = Videos
    /\ file \in {NoFile, JsonDump(<<>>), <<LBR>>}
    /\ processed_files = {}
    /\ loaded = {}
    /\ mainpc = "cli"
    /\ todo = <<>>
    /\ unprocessed_files = {}
    /\ queue = <<>>
    /\ wpc = [w \in Workers |-> "idle"]
    /\ witem = [w \in Workers |-> NoItem]
    /\ si_used = [w \in Workers |-> 0]
    /\ buf = [w \in Workers |-> <<>>]
    /\ item = [i \in Videos |-> FreshItem]
    /\ completed = 0
    /\ log = {}
    /\ crashed = FALSE
    /\ lastSaved = file
    /\ run = 1
    /\ prevOk = FALSE
    /\ vpath = DistinctStems
    /\ audio = {}
    /\ AuxParked

\* cli.py lines 61-86: the configuration is resolved and validated and the
\* VideoProcessor is constructed, which loads the progress file; any
\* exception ends the invocation with exit code 1 (lines 91-93).
CliProcess ==
    /\ mainpc = "cli"
    /\ \E key_option \in {NONE, "gsk"}, env_key \in {"", "gsk"},
          output_format \in {"srt", "SRT", "ass"}, exists \in BOOLEAN :
           /\ config' = Resolve(key_option, env_key, output_format)
           /\ input_exists' = exists
           /\ IF ConfigError(config', exists) \/ LoadRaises(file)
              THEN /\ exit_code' = 1
                   /\ mainpc' = "exited"
                   /\ UNCHANGED <<processed_files, loaded>>
              ELSE /\ exit_code' = exit_code
                   /\ mainpc' = "discover"
                   /\ processed_files' = LoadProgress(file)
                   /\ loaded' = LoadProgress(file)
    /\ UNCHANGED <<num_workers, video_files, file, todo, unprocessed_files, queue, wpc,
                   witem, si_used, buf, item, completed, log, crashed, lastSaved, run,
                   prevOk, vpath, audio>>
    /\ UNCHANGED <<clientVars, scanVars>>

\* cli.py lines 87-93: process_videos has returned, or has raised
CliExit ==
    /\ ~crashed /\ mainpc \in {"returned", "raised"}
    /\ exit_code' = IF mainpc = "raised" THEN 1 ELSE 0
    /\ mainpc' = "exited"
    /\ UNCHANGED <<num_workers, video_files, file, processed_files, loaded, todo,
                   unprocessed_files, queue, wpc, witem, si_used, buf, item, completed,
                   log, crashed, lastSaved, run, prevOk, vpath, audio>>
    /\ UNCHANGED <<config, input_exists>>
    /\ UNCHANGED <<clientVars, scanVars>>

NextCli ==
    \/ CliProcess
    \/ CliExit
    \/ Next

SpecCli == InitCli /\ [][NextCli]_vars

\* ------------------------------------------------- transcription client
\* The batch engine between runs, with the progress file f on disk.
EngineIdle(pc, f) ==
    /\ num_workers = ClampWorkers(0)
    /\ video_files = {}
    /\ file = f
    /\ processed_files = {}
    /\ loaded = {}
    /\ mainpc = pc
    /\ todo = <<>>
    /\ unprocessed_files = {}
    /\ queue = <<>>
    /\ wpc = [w \in Workers |-> "idle"]
    /\ witem = [w \in Workers |-> NoItem]
    /\ si_used = [w \in Workers |-> 0]
    /\ buf = [w \in Workers |-> <<>>]
    /\ item = [i \in Videos |-> FreshItem]
    /\ completed = 0
    /\ log = {}
    /\ crashed = FALSE
    /\ lastSaved = f
    /\ run = 1
    /\ prevOk = FALSE
    /\ vpath = DistinctStems
    /\ audio = {}

\* The batch engine when no batch is run.
EngineParked == EngineIdle("parked", NoFile)

\* The resolved configurations the client is built for.
ClientConfigs ==
    {Config("gsk", m, l, "srt", f, t, p, FALSE) :
        m \in WhisperModels, l \in {NONE, "en"}, f \in ResponseFormats,
        t \in {NONE, "0.5"}, p \in {NONE, "hint"}}

InitClient ==
    /\ EngineParked
    /\ ScanParked
    /\ config \in ClientConfigs
    /\ exit_code = -1
    /\ input_exists = TRUE
    /\ transcriber = NoTranscriber
    /\ built_by = NONE
    /\ tpc = "new"
    /\ afile = [size |-> 0, suffix |-> NONE]
    /\ session = FALSE
    /\ request = {}
    /\ response = NoResponse
    /\ result = NoResult
    /\ terr = NoError
    /\ subs = NoSubs

\* processor.py line 24: the batch engine builds its transcriber.
ConstructByProcessor ==
    /\ tpc = "new"
    /\ transcriber' = ProcessorTranscriber(config)
    /\ built_by' = "VideoProcessor"
    /\ tpc' = "ready"
    /\ UNCHANGED <<afile, session, request, response, result, terr, subs>>
    /\ UNCHANGED <<engineVars, scanVars, cliVars>>

\* A caller of the library builds a transcriber with each field of the
\* configuration passed in its own parameter.
ConstructByKeywords ==
    /\ tpc = "new"
    /\ transcriber' = WhisperTranscriber(config.groq_api_key, config.model, config.language,
                                         config.response_format, config.temperature,
                                         config.prompt)
    /\ built_by' = "keywords"
    /\ tpc' = "ready"
    /\ UNCHANGED <<afile, session, request, response, result, terr, subs>>
    /\ UNCHANGED <<engineVars, scanVars, cliVars>>

\* transcribe_audio is called with an existing audio file.
CallTranscribe ==
    /\ tpc = "ready"
    /\ \E size \in AudioSizes, suffix \in AudioSuffixes :
           afile' = [size |-> size, suffix |-> suffix]
    /\ tpc' = "check_size"
    /\ UNCHANGED <<transcriber, built_by, session, request, response, result, terr, subs>>
    /\ UNCHANGED <<engineVars, scanVars, cliVars>>

\* lines 54-58
CheckSize ==
    /\ tpc = "check_size"
    /\ IF TooLarge(afile.size)
       THEN /\ terr' = [kind |-> "ValueError", status |-> 0, body |-> "File size exceeds"]
            /\ tpc' = "raised"
       ELSE /\ terr' = terr
            /\ tpc' = "check_format"
    /\ UNCHANGED <<transcriber, built_by, afile, session, request, response, result, subs>>
    /\ UNCHANGED <<engineVars, scanVars, cliVars>>

\* lines 61-64
CheckFormat ==
    /\ tpc = "check_format"
    /\ IF UnsupportedAudio(afile.suffix)
       THEN /\ terr' = [kind |-> "ValueError", status |-> 0, body |-> "Unsupported audio format"]
            /\ tpc' = "raised"
       ELSE /\ terr' = terr
            /\ tpc' = "open_session"
    /\ UNCHANGED <<transcriber, built_by, afile, session, request, response, result, subs>>
    /\ UNCHANGED <<engineVars, scanVars, cliVars>>

\* line 70
OpenSession ==
    /\ tpc = "open_session"
    /\ session' = TRUE
    /\ tpc' = "post"
    /\ UNCHANGED <<transcriber, built_by, afile, request, response, result, terr, subs>>
    /\ UNCHANGED <<engineVars, scanVars, cliVars>>

\* lines 71-91: the form is built and posted
Post ==
    /\ tpc = "post"
    /\ IF Unserializable(FormFields(transcriber))
       THEN /\ terr' = [kind |-> "TypeError", status |-> 0, body |-> "Can not serialize value"]
            /\ request' = request
            /\ tpc' = "raised"
       ELSE /\ terr' = terr
            /\ request' = FormFields(transcriber)
            /\ tpc' = "await"
    /\ UNCHANGED <<transcriber, built_by, afile, session, response, result, subs>>
    /\ UNCHANGED <<engineVars, scanVars, cliVars>>

\* The service answers.
Respond ==
    /\ tpc = "await"
    /\ \E status \in Statuses, body \in Bodies(request) :
           response' = [status |-> status, kind |-> body.kind, text |-> body.text,
                        segments |-> body.segments]
    /\ tpc' = "handle"
    /\ UNCHANGED <<transcriber, built_by, afile, session, request, result, terr, subs>>
    /\ UNCHANGED <<engineVars, scanVars, cliVars>>

\* lines 92-100
Handle ==
    /\ tpc = "handle"
    /\ IF IsError(response.status)
       THEN /\ terr' = [kind |-> "Exception", status |-> response.status, body |-> response.text]
            /\ result' = result
            /\ tpc' = "raised"
       ELSE /\ terr' = terr
            /\ result' = ResultOf(transcriber, response)
            /\ tpc' = "returned"
    /\ UNCHANGED <<transcriber, built_by, afile, session, request, response, subs>>
    /\ UNCHANGED <<engineVars, scanVars, cliVars>>

\* save_subtitles is called with the returned transcription, lines 102-132.
SaveResult ==
    /\ tpc = "returned"
    /\ \E format \in {"srt", "vtt", "txt", "ass"} :
           subs' = [status |-> SaveOutcome(result, format), format |-> format,
                    doc |-> SaveDocument(result, format)]
    /\ tpc' = "saved"
    /\ UNCHANGED <<transcriber, built_by, afile, session, request, response, result, terr>>
    /\ UNCHANGED <<engineVars, scanVars, cliVars>>

NextClient ==
    \/ ConstructByProcessor
    \/ ConstructByKeywords
    \/ CallTranscribe
    \/ CheckSize
    \/ CheckFormat
    \/ OpenSession
    \/ Post
    \/ Respond
    \/ Handle
    \/ SaveResult

SpecClient == InitClient /\ [][NextClient]_vars

\* ------------------------------------------------------------ discovery
SUPPORTED_FORMATS == {".mp4", ".mkv", ".avi", ".mov"}

\* A check of the extension alone.
RecognizedSuffix(path) == Lower(path.suffix) \in SUPPORTED_FORMATS

\* _is_supported_video: path.is_file() and path.suffix.lower() in SUPPORTED_FORMATS
IsSupportedVideo(path) == path.kind = "file" /\ Lower(path.suffix) \in SUPPORTED_FORMATS

\* directory.iterdir(): the direct children
Iterdir(d) == {e \in d : e.depth = 1}

\* directory.rglob("*"): every entry below the directory, at any depth
Rglob(d) == d

\* The order in which a directory listing yields its entries.
RECURSIVE Listing(_)
Listing(S) ==
    IF S = {} THEN <<>>
    ELSE LET e == CHOOSE x \in S : \A y \in S : x.id <= y.id
         IN <<e>> \o Listing(S \ {e})

\* [f for f in ... if self._is_supported_video(f)]
RECURSIVE Comprehension(_)
Comprehension(l) ==
    IF l = <<>> THEN <<>>
    ELSE (IF IsSupportedVideo(Head(l)) THEN <<Head(l)>> ELSE <<>>) \o Comprehension(Tail(l))

\* A collection that ignores config.recursive.
CollectTopLevel(d, recursive) == Comprehension(Listing(Iterdir(d)))

\* _collect_video_files
CollectVideoFiles(d, recursive) ==
    IF recursive THEN Comprehension(Listing(Rglob(d))) ELSE Comprehension(Listing(Iterdir(d)))

\* process_videos lines 29-32
DiscoverFiles(r, d, recursive) ==
    IF r.kind = "file"
    THEN (IF IsSupportedVideo(r) THEN <<r>> ELSE <<>>)
    ELSE CollectVideoFiles(d, recursive)

\* What may lie below the directory: videos in lower and upper case, other
\* files, a directory named like a video, and files one and two levels down.
ScanEntries ==
    {PathEntry(1, 1, "file", ".mp4"), PathEntry(2, 1, "file", ".MKV"),
     PathEntry(3, 1, "file", ".txt"), PathEntry(4, 1, "dir", ".mp4"),
     PathEntry(5, 2, "file", ".avi"), PathEntry(6, 2, "file", ".srt"),
     PathEntry(7, 3, "file", ".mov")}

\* input_path: the directory, or a single existing file.
Roots == {RootDir} \cup {PathEntry(0, 0, "file", x) : x \in {".mp4", ".Mp4", ".txt"}}

\* The paths _is_supported_video is asked about: entries of the directory and
\* bare names of files that do not exist, as Path("video.mp4") in the tests.
ProbePaths ==
    ScanEntries \cup {PathEntry(0, 0, "missing", x) : x \in {".mp4", ".MKV", ".avi", ".mov", ".txt", ".wmv"}}

InitScan ==
    /\ EngineParked
    /\ ClientParked
    /\ config \in {Config("gsk", DefaultConfig.model, DefaultConfig.language, "srt",
                          DefaultConfig.response_format, NONE, NONE, r) : r \in BOOLEAN}
    /\ exit_code = -1
    /\ input_exists = TRUE
    /\ disk \in SUBSET ScanEntries
    /\ root \in Roots
    /\ scanned = <<>>
    /\ probe = [path |-> NoPath, result |-> FALSE]
    /\ scanpc = "start"

\* process_videos lines 29-32
ScanDiscover ==
    /\ scanpc = "start"
    /\ scanned' = DiscoverFiles(root, disk, config.recursive)
    /\ scanpc' = "scanned"
    /\ UNCHANGED <<disk, root, probe>>
    /\ UNCHANGED <<engineVars, clientVars, cliVars>>

\* _is_supported_video is called on a path.
Probe ==
    /\ scanpc = "start"
    /\ \E path \in ProbePaths : probe' = [path |-> path, result |-> IsSupportedVideo(path)]
    /\ scanpc' = "probed"
    /\ UNCHANGED <<disk, root, scanned>>
    /\ UNCHANGED <<engineVars, clientVars, cliVars>>

NextScan ==
    \/ ScanDiscover
    \/ Probe

SpecScan == InitScan /\ [][NextScan]_vars

\* ------------------------------------------------------- progress store
InitStore ==
    /\ \E f \in {NoFile} \cup {JsonDump(AscList(S)) : S \in SUBSET Videos} :
           EngineIdle("constructed", f)
    /\ AuxParked

\* self._processed_files holds a set S of paths.
StoreSet ==
    /\ mainpc = "constructed"
    /\ \E S \in SUBSET Videos : processed_files' = S
    /\ mainpc' = "set"
    /\ UNCHANGED <<num_workers, video_files, file, loaded, todo, unprocessed_files, queue,
                   wpc, witem, si_used, buf, item, completed, log, crashed, lastSaved,
                   run, prevOk, vpath, audio>>
    /\ UNCHANGED auxVars

\* _save_progress, lines 145-147, run by one thread from open to close
StoreSave ==
    /\ mainpc = "set"
    /\ file' = WriteAt0(Truncate(file), JsonDump(AscList(processed_files)))
    /\ mainpc' = "saved"
    /\ UNCHANGED <<num_workers, video_files, processed_files, loaded, todo, unprocessed_files,
                   queue, wpc, witem, si_used, buf, item, completed, log, crashed,
                   lastSaved, run, prevOk, vpath, audio>>
    /\ UNCHANGED auxVars

\* VideoProcessor(config): the constructor calls _load_progress, lines 138-143
StoreLoad ==
    /\ mainpc \in {"constructed", "saved"}
    /\ IF LoadRaises(file)
       THEN /\ mainpc' = "load_raised"
            /\ loaded' = loaded
       ELSE /\ mainpc' = IF mainpc = "saved" THEN "reloaded" ELSE "loaded"
            /\ loaded' = LoadProgress(file)
    /\ UNCHANGED <<num_workers, video_files, file, processed_files, todo, unprocessed_files,
                   queue, wpc, witem, si_used, buf, item, completed, log, crashed,
                   lastSaved, run, prevOk, vpath, audio>>
    /\ UNCHANGED auxVars

NextStore ==
    \/ StoreSet
    \/ StoreSave
    \/ StoreLoad

SpecStore == InitStore /\ [][NextStore]_vars

\* ------------------------------------------------------------- properties
StepsAD == {"extract", "transcribe", "subtitles", "unlink"}
Ended == mainpc \in {"returned", "raised"}
Succeeded == {i \in Videos : item[i].outcome = "success"}
InFlight == {i \in Videos : item[i].started > 0 /\ ~item[i].finished}
ErrorLogged(i) == [level |-> "error", msg |-> "Failed to process", path |-> i] \in log

\* C1: when extraction, transcription, subtitle writing or the audio cleanup
\* of an item fails, its call returns normally (its future holds no
\* exception and process_videos does not raise), an error with the item's
\* path is logged, the item's pipeline neither inserted its path into the
\* progress set nor called the persist, and when process_videos ends every
\* item of the unprocessed_files set has been attempted.
C1_FailureIsolated ==
    /\ \A i \in Videos :
          (item[i].finished /\ item[i].failedAt \in StepsAD) =>
              /\ ~item[i].raised
              /\ ErrorLogged(i)
              /\ ~item[i].inserted
              /\ ~item[i].saveCalled
              /\ i \notin processed_files
    /\ (Ended /\ \E i \in Videos : item[i].failedAt \in StepsAD) =>
          /\ mainpc = "returned"
          /\ \A j \in unprocessed_files : item[j].started = 1

C1_Witness ==
    /\ mainpc = "returned"
    /\ \E i, j, k \in unprocessed_files :
          /\ item[i].failedAt = "extract"
          /\ item[j].failedAt \in {"transcribe", "subtitles", "unlink"}
          /\ item[k].outcome = "success"

\* C2: in one call of process_videos every item of the unprocessed_files set has its
\* pipeline started exactly once (never twice at any moment), and when
\* process_videos has ended every one of them has been started and has
\* finished, and no worker thread is still running.
C2_OnceAndJoined ==
    /\ \A i \in Videos : item[i].started <= 1
    /\ Ended =>
          /\ \A i \in unprocessed_files : item[i].started = 1 /\ item[i].finished
          /\ \A w \in Workers : wpc[w] = "idle"
          /\ queue = <<>> /\ todo = <<>>

C2_Witness ==
    /\ mainpc = "returned"
    /\ num_workers = 2
    /\ Cardinality(unprocessed_files) = 3
    /\ \E i, j \in unprocessed_files : item[i].outcome = "failed" /\ item[j].outcome = "success"

\* C3: the worker count is at least 1; at every moment the items whose
\* pipeline has started and not finished are at most num_workers, each of
\* them held by one busy pool thread, and a thread holds one item at a time
\* (so it takes its next item only after the current one has finished).
C3_BoundedConcurrency ==
    /\ num_workers >= 1
    /\ Cardinality(InFlight) <= num_workers
    /\ \A i \in InFlight : \E w \in Workers : witem[w] = i /\ wpc[w] # "idle"
    /\ \A w \in Workers : wpc[w] # "idle" => witem[w] \in InFlight
    /\ \A w \in Workers : wpc[w] = "idle" <=> witem[w] = NoItem
    /\ \A v, w \in Workers : (v # w /\ wpc[v] # "idle" /\ wpc[w] # "idle") => witem[v] # witem[w]

C3_Witness ==
    /\ num_workers = 2
    /\ Cardinality(InFlight) = 2
    /\ Len(queue) = 1

\* C4: no discovered file that was in the progress set loaded at
\* construction is ever attempted; and when nothing was discovered, or all
\* that was discovered is in the progress set, process_videos logs the
\* matching message and returns with nothing submitted, queued or started.
C4_ProcessedNeverAttempted ==
    /\ \A i \in loaded : item[i].started = 0 /\ i \notin unprocessed_files
    /\ (mainpc = "returned" /\ video_files = {}) =>
          [level |-> "warning", msg |-> "No supported video files found", path |-> NoItem] \in log
    /\ (mainpc = "returned" /\ video_files # {} /\ video_files \subseteq loaded) =>
          [level |-> "info", msg |-> "All files have been processed", path |-> NoItem] \in log
    /\ (mainpc = "returned" /\ video_files \subseteq loaded) =>
          /\ \A i \in Videos : item[i].started = 0
          /\ unprocessed_files = {} /\ queue = <<>> /\ todo = <<>>
          /\ \A w \in Workers : wpc[w] = "idle"

C4_Witness ==
    /\ mainpc = "returned"
    /\ \E i, j \in video_files :
          /\ i \in loaded /\ item[i].started = 0
          /\ j \notin loaded /\ item[j].outcome = "success"

\* C5: when a run left every discovered video either already recorded or
\* successfully processed, the next run on the same input loads the progress
\* file and attempts no item.
C5_RerunAttemptsNothing ==
    (run > 1 /\ prevOk) =>
        /\ mainpc \in {"discover", "filter", "returned"}
        /\ unprocessed_files = {}
        /\ \A i \in Videos : item[i].started = 0

\* A thread has inserted its path and has not yet left _save_progress.
InSection(w) == wpc[w] \in {"open", "iter", "dump", "close"}

\* C6: no two worker threads are at the same time between their insert into
\* the progress set and the end of their persist of it.
C6_ProgressMutex ==
    \A v, w \in Workers : (v # w) => ~(InSection(v) /\ InSection(w))

\* C7: when process_videos returns, the progress file holds exactly the paths
\* loaded at construction plus the path of every item that succeeded in this
\* run.
C7_NoLostUpdate ==
    (mainpc = "returned" /\ unprocessed_files # {}) =>
        /\ ~LoadRaises(file)
        /\ LoadProgress(file) = loaded \cup Succeeded

\* C8: after a kill at any point of a run the progress file holds exactly
\* what the last completed save wrote (or, before any save, what it held
\* when the run began).
C8_CrashConsistent == crashed => file = lastSaved

\* C9: an item reported as successfully processed (its counter advance done)
\* has had its path inserted into the progress set and its own persist
\* completed before; this holds while other items are still running, not
\* only at the end of the run.
C9_PersistBeforeReport ==
    \A i \in Videos :
        (item[i].advances > 0 /\ item[i].outcome = "success") =>
            /\ item[i].inserted
            /\ item[i].persisted
            /\ i \in processed_files

C9_Witness ==
    /\ mainpc = "gather"
    /\ \E i, j \in unprocessed_files :
          /\ item[i].outcome = "success" /\ item[i].advances = 1 /\ item[i].persisted
          /\ j \in InFlight

\* C10: the pipeline of an attempted item advances the progress counter
\* exactly once, on success and on failure at any step, and not before it
\* finishes; so the counter equals the number of finished items, and the
\* size of the unprocessed_files set when process_videos returns.
C10_OneAdvancePerItem ==
    /\ \A i \in Videos : item[i].advances = (IF item[i].finished THEN 1 ELSE 0)
    /\ completed = Cardinality({i \in Videos : item[i].finished})
    /\ (mainpc = "returned" /\ unprocessed_files # {}) => completed = Cardinality(unprocessed_files)

C10_Witness ==
    /\ mainpc = "returned"
    /\ completed = 3
    /\ \E i, j, k \in unprocessed_files :
          /\ item[i].outcome = "success"
          /\ item[j].failedAt = "extract"
          /\ item[k].failedAt = "unlink"

\* C11: two distinct items of a batch whose pipelines have started never
\* have the same audio artifact path, and from its extraction to its cleanup
\* the artifact of an item is on disk as that item's pipeline wrote it (no
\* other pipeline overwrote or deleted it).
C11_ArtifactExclusive ==
    /\ \A i, j \in Videos :
          (i # j /\ item[i].started > 0 /\ item[j].started > 0) => AudioPath(i) # AudioPath(j)
    /\ \A w \in Workers :
          wpc[w] \in {"transcribe", "subtitles", "unlink"} =>
              [path |-> AudioPath(witem[w]), by |-> witem[w]] \in audio

\* The transcription call of item i returned a result.
Transcribed(i) ==
    /\ item[i].finished
    /\ item[i].failedAt \notin {"extract", "transcribe"}

\* C12: once the pipeline of an item whose transcription succeeded has
\* finished, the item's audio artifact is no longer on disk.
C12_ArtifactDeleted ==
    \A i \in Videos : Transcribed(i) => ~AudioExists(AudioPath(i))

\* transcribe_audio has gone past its two precondition checks, or has failed.
PastChecks == tpc \in {"open_session", "post", "await", "handle", "returned", "saved", "raised"}

\* The file violates a precondition as the claim words it.
Rejectable ==
    \/ afile.size > 25 * 1024 * 1024
    \/ Lower(afile.suffix) \notin {".mp3", ".mp4", ".mpeg", ".mpga", ".m4a", ".wav", ".webm"}

\* C13: transcribe_audio checks its preconditions before any network
\* activity: for a file larger than 25 MiB, or with an extension that is not
\* recognized in any letter case, it raises without a session having been
\* opened or a request sent; a file of exactly 25 MiB with a recognized
\* extension passes both checks and the session is opened.
C13_PreconditionsBeforeNetwork ==
    /\ (PastChecks /\ Rejectable) =>
           tpc = "raised" /\ terr.kind = "ValueError" /\ ~session /\ request = {}
    /\ (session \/ request # {}) => ~Rejectable
    /\ (PastChecks /\ afile.size = 25 * 1024 * 1024 /\ ~UnsupportedAudio(afile.suffix)) =>
           terr.kind # "ValueError" /\ (tpc # "open_session" => session)

C13_Witness ==
    /\ tpc = "raised"
    /\ afile.size = 25 * 1024 * 1024 + 1
    /\ afile.suffix = ".M4A"
    /\ terr.kind = "ValueError"
    /\ ~session

\* The service has answered and transcribe_audio has handled the answer.
Handled == response.status # 0 /\ tpc \in {"returned", "saved", "raised"}

\* C14: a non-2xx status makes transcribe_audio raise an error carrying the
\* status and the body text, and every 2xx status is handled as success: the
\* body is parsed into the result.
C14_StatusHandling ==
    Handled =>
        IF response.status \in 200..299
        THEN terr = NoError /\ result # NoResult
        ELSE tpc = "raised" /\ terr.status = response.status /\ terr.body = response.text

\* C15: with the plain text response format, a successful transcribe_audio
\* returns a result that has a segment list of exactly one element holding
\* the whole response text, and save_subtitles accepts it for every
\* supported format.
C15_TextResultHasOneSegment ==
    (transcriber.response_format = "text" /\ tpc \in {"returned", "saved"}) =>
        /\ "segments" \in result.keys
        /\ Len(result.segments) = 1
        /\ result.segments[1].text = response.text
        /\ (tpc = "saved" /\ subs.format \in {"srt", "vtt", "txt"}) => subs.status = "written"

\* C16: every request the batch engine's transcriber sends carries the
\* configuration's model and response format, its language unless the model
\* is the English-only one, and its temperature and prompt when configured.
C16_RequestCarriesConfig ==
    (built_by = "VideoProcessor" /\ request # {}) =>
        /\ <<"model", config.model>> \in request
        /\ <<"response_format", config.response_format>> \in request
        /\ (Truthy(config.language) /\ config.model # DISTIL_ENGLISH) =>
               <<"language", config.language>> \in request
        /\ config.temperature # NONE => <<"temperature", config.temperature>> \in request
        /\ Truthy(config.prompt) => <<"prompt", config.prompt>> \in request

\* The invocation's configuration is in error, in the claim's words.
Misconfigured ==
    \/ config.groq_api_key \in {"", NONE}
    \/ ~input_exists
    \/ config.output_format \notin {"srt", "vtt", "txt"}

\* C17: a configuration error (no credential, a missing input path, an
\* unsupported output format) ends the invocation with exit code 1 before
\* anything is discovered or any pipeline started; with a valid configuration
\* and a readable progress file the exit code is 0 whatever the items'
\* outcomes, every item failing included.
C17_ExitStatus ==
    /\ Misconfigured =>
           /\ mainpc = "exited" /\ exit_code = 1
           /\ log = {} /\ todo = <<>> /\ unprocessed_files = {}
           /\ \A i \in Videos : item[i].started = 0
    /\ (mainpc = "exited" /\ ~Misconfigured /\ ~LoadRaises(file)) => exit_code = 0
    /\ exit_code # -1 <=> mainpc = "exited"

C17_Witness ==
    /\ mainpc = "exited"
    /\ exit_code = 0
    /\ unprocessed_files = Videos
    /\ \A i \in Videos : item[i].outcome = "failed" /\ ErrorLogged(i)

\* C18: _is_supported_video is true for every path whose extension is mp4,
\* mkv, avi or mov in any letter case and false for every other path: the
\* result depends on the extension alone.
C18_ExtensionAlone ==
    probe.path # NoPath =>
        (probe.result <=> Lower(probe.path.suffix) \in {".mp4", ".mkv", ".avi", ".mov"})

\* The recognized videos directly in the directory, and those further down.
TopLevelVideos == {e \in disk : e.kind = "file" /\ e.depth = 1 /\ RecognizedSuffix(e)}
NestedVideos == {e \in disk : e.kind = "file" /\ e.depth > 1 /\ RecognizedSuffix(e)}

\* C19: for a directory with N recognized videos at top level and M in
\* subdirectories, discovery yields exactly the N top-level files when not
\* recursive and exactly the N+M files when recursive, each once; for a root
\* that is a single file it yields that file if its extension is recognized
\* and nothing otherwise.
C19_Discovery ==
    scanpc = "scanned" =>
        LET got == {scanned[n] : n \in DOMAIN scanned}
            N == Cardinality(TopLevelVideos)
            M == Cardinality(NestedVideos)
        IN IF root.kind = "dir"
           THEN /\ Len(scanned) = Cardinality(got)
                /\ got = IF config.recursive THEN TopLevelVideos \cup NestedVideos ELSE TopLevelVideos
                /\ Len(scanned) = IF config.recursive THEN N + M ELSE N
           ELSE scanned = IF RecognizedSuffix(root) THEN <<root>> ELSE <<>>

C19_Witness ==
    /\ scanpc = "scanned"
    /\ root = RootDir
    /\ config.recursive
    /\ disk = ScanEntries
    /\ Cardinality(TopLevelVideos) = 2
    /\ Len(scanned) = 4

\* C20: saving a set S of paths and loading it in a new VideoProcessor
\* yields S, whatever the progress file held before; loading when there is no
\* progress file yields the empty set, and neither load raises.
C20_ProgressRoundTrip ==
    /\ mainpc = "reloaded" => loaded = processed_files
    /\ (mainpc = "loaded" /\ file = NoFile) => loaded = {}
    /\ mainpc # "load_raised"

C20_Witness ==
    /\ mainpc = "reloaded"
    /\ Cardinality(loaded) = 2
    /\ Len(lastSaved) > Len(file)

\* C21: for a transcription result with k segments the written .srt document
\* has exactly k blocks in the order of the segments: block i, counted from
\* 1, is the index i, the line "<start> --> <end>" of segment i, the text of
\* segment i and a blank line; the segments are never re-sorted.
C21_SrtBlocks ==
    (tpc = "saved" /\ subs.format = "srt" /\ subs.status = "written") =>
        LET k == Len(result.segments)
            d == subs.doc
        IN /\ Len(d) = 4 * k
           /\ \A i \in 1..k :
                 /\ d[4 * i - 3].kind = "index" /\ d[4 * i - 3].n = i
                 /\ d[4 * i - 2].kind = "timing"
                 /\ d[4 * i - 2].from = FormatTimestamp(result.segments[i].start, FALSE)
                 /\ d[4 * i - 2].to = FormatTimestamp(result.segments[i].end, FALSE)
                 /\ d[4 * i - 1].kind = "text" /\ d[4 * i - 1].text = result.segments[i].text
                 /\ d[4 * i].kind = "blank"

C21_Witness ==
    /\ tpc = "saved" /\ subs.format = "srt" /\ subs.status = "written"
    /\ Len(result.segments) = 3
    /\ result.segments[1].start > result.segments[2].start
    /\ Len(subs.doc) = 12
    /\ subs.doc[2].from.hours = 1 /\ subs.doc[2].from.minutes = 1 /\ subs.doc[2].from.msecs = 500

\* The statement the pipeline of item i stands at: the one that raised when
\* it failed, the last one when it succeeded.
Position(i) ==
    LET at == IF item[i].failedAt = "save" THEN "dump" ELSE item[i].failedAt
    IN IF \E w \in Workers : witem[w] = i
       THEN LET w == CHOOSE v \in Workers : witem[v] = i
            IN IF wpc[w] = "except" THEN at ELSE wpc[w]
       ELSE IF ~item[i].finished THEN "extract"
       ELSE IF item[i].failedAt = "none" THEN "report" ELSE at

\* The statements of the try block that come after the insertion at line 89.
AfterInsertion == {"open", "iter", "dump", "close", "report"}

\* C22: every path inserted into the progress set during the current run
\* belongs to an item whose extraction, transcription and subtitle writing
\* succeeded and whose audio artifact was deleted before the insertion.
C22_InsertedAfterAllSteps ==
    \A i \in Videos :
        item[i].inserted =>
            /\ i \in processed_files
            /\ item[i].started = 1
            /\ Position(i) \in AfterInsertion
            /\ item[i].failedAt \notin StepsAD
            /\ ~AudioExists(AudioPath(i))

C22_Witness ==
    \E i, j \in unprocessed_files :
        /\ item[i].inserted /\ i \notin loaded /\ ~item[i].finished
        /\ \E w \in Workers : witem[w] = j /\ wpc[w] = "subtitles"
        /\ AudioExists(AudioPath(j))
        /\ \E k \in unprocessed_files : item[k].failedAt = "unlink" /\ ~item[k].inserted

\* C23: when the run ends, an item whose pipeline ended in the failure branch
\* (logged "Failed to process") is neither in the in-memory progress set nor
\* in the persisted progress file, so the next run retries it.
C23_FailedNeverRecorded ==
    Ended =>
        \A i \in unprocessed_files :
            ErrorLogged(i) =>
                /\ i \notin processed_files
                /\ (~LoadRaises(file) => i \notin LoadProgress(file))

====
